---- MODULE Spec2Model ----
(***************************************************************************)
(* Model of src/Annotator.py, class GenomicRegionAnnotator.                *)
(*                                                                         *)
(* Python strings that the code formats and parses again (labels, base     *)
(* identifiers, annotation cells) are sequences of one-character strings,  *)
(* so that "_".join / split("_"), split("(") and split(";") are computed   *)
(* as the code computes them.  Column names and enumeration values that    *)
(* the code only compares are TLA+ strings.                                *)
(*                                                                         *)
(* The interval engine (pybedtools intersect -wa -wb) is the external      *)
(* primitive: one record per (base row, reference row) pair on the same    *)
(* chromosome sharing at least one position, base rows in table order and  *)
(* reference rows in file order.                                           *)
(***************************************************************************)
EXTENDS Integers, Sequences, FiniteSets, TLC

VARIABLES
    files,       \* reference files on disk: FILENAME -> file content
    database,    \* self.__database: [none, rows], none for Python's None
    base,        \* self.__base: [none, header_ok, rows]
    base_cols,   \* annotation columns of self.__base: region_type -> cells
    base_bed,    \* self.__base_bed: [none, rows]
    pc,          \* "idle", or "annotate" while annotate's loop is running
    idx,         \* annotate: position of the loop in the database rows
    op,          \* the last operation that returned or raised
    result,      \* "ok" or the name of the exception it raised
    calls,       \* history: annotate calls on the loaded base table
    call_log,    \* history: per database row, what the running call did
    prev_log,    \* history: [none, log], call_log of the previous call
    prev_cols,   \* history: [none, cols], base_cols after the previous call
    last_hits,   \* history: the hit records of the last matched entry
    merged,      \* history: the merges of the last matched entry
    probe        \* input and output of the hit-selection block (SpecMerge)

vars == <<files, database, base, base_cols, base_bed, pc, idx, op, result,
          calls, call_log, prev_log, prev_cols, last_hits, merged, probe>>

\* Python's None, for each attribute that can hold it
NoDatabase == [none |-> TRUE, rows |-> <<>>]
NoBase == [none |-> TRUE, header_ok |-> FALSE, rows |-> <<>>]
NoBed == [none |-> TRUE, rows |-> <<>>]
NoLog == [none |-> TRUE, log |-> <<>>]

----------------------------------------------------------------------------
(* Bounds of the model *)

\* coordinates of base and reference intervals range over 0..MaxCoord
MaxCoord == 5
\* MAX.DISTANCE ranges over 0..MaxPad
MaxPad == 3
\* annotate is called at most MaxCalls times on one base table
MaxCalls == 2

----------------------------------------------------------------------------
(* Python string primitives *)

NA == <<"N", "A">>

Digits == <<"0", "1", "2", "3", "4", "5", "6", "7", "8", "9">>

RECURSIVE NatStr(_)
NatStr(n) == IF n < 10 THEN <<Digits[n + 1]>>
             ELSE NatStr(n \div 10) \o <<Digits[(n % 10) + 1]>>

\* str(n) of an int
IntStr(n) == IF n < 0 THEN <<"-">> \o NatStr(-n) ELSE NatStr(n)

DigitVal(c) == CHOOSE d \in 0..9 : Digits[d + 1] = c

IsDigit(c) == \E d \in 0..9 : Digits[d + 1] = c

RECURSIVE NatVal(_)
NatVal(s) == IF Len(s) = 0 THEN 0
             ELSE 10 * NatVal(SubSeq(s, 1, Len(s) - 1)) + DigitVal(s[Len(s)])

AllDigits(s) == Len(s) > 0 /\ \A i \in 1..Len(s) : IsDigit(s[i])

\* int(s): the value, or ValueError
ParseInt(s) ==
    IF AllDigits(s) THEN [err |-> "none", val |-> NatVal(s)]
    ELSE IF Len(s) > 1 /\ s[1] = "-" /\ AllDigits(Tail(s))
         THEN [err |-> "none", val |-> 0 - NatVal(Tail(s))]
         ELSE [err |-> "ValueError", val |-> 0]

RECURSIVE SplitFrom(_, _, _, _)
SplitFrom(s, c, i, cur) ==
    IF i > Len(s) THEN <<cur>>
    ELSE IF s[i] = c THEN <<cur>> \o SplitFrom(s, c, i + 1, <<>>)
         ELSE SplitFrom(s, c, i + 1, Append(cur, s[i]))

\* s.split(c) for a one-character separator
Split(s, c) == SplitFrom(s, c, 1, <<>>)

RECURSIVE Join(_, _)
\* sep.join(parts)
Join(parts, sep) ==
    IF Len(parts) = 0 THEN <<>>
    ELSE IF Len(parts) = 1 THEN parts[1]
         ELSE parts[1] \o sep \o Join(Tail(parts), sep)

IsPrefix(s, t) == Len(s) <= Len(t) /\ SubSeq(t, 1, Len(s)) = s

Abs(n) == IF n < 0 THEN 0 - n ELSE n

----------------------------------------------------------------------------
(* Reference files: tab separated lines, here already split into columns.  *)
(* A file is [ncols, lines]; a line is [chrom, start, end, name, strand].   *)
(* Columns beyond ncols do not exist in the file.                          *)

\* __is_bed6_like looks at the lines before this one
SniffLimit == 100

\* split_line[k] (0-based) as a string; only called with k < ncols
Column(line, k) ==
    CASE k = 0 -> line.chrom
      [] k = 1 -> IntStr(line.start)
      [] k = 2 -> IntStr(line.end)
      [] k = 3 -> line.name
      [] k = 4 -> <<"0">>
      [] OTHER -> <<line.strand>>

\* __is_bed6_like(bed_filename)
IsBed6Like(file) ==
    LET n == IF Len(file.lines) < SniffLimit - 1 THEN Len(file.lines)
             ELSE SniffLimit - 1
        strands == {file.lines[i].strand : i \in 1..n}
    IN  /\ (n > 0 => file.ncols >= 6)
        /\ \/ strands = {"+", "-"}
           \/ strands = {"+"}
           \/ strands = {"-"}

----------------------------------------------------------------------------
(* __create_bed6: the query intervals of one database entry *)

\* the name of one line, before the coordinates are attached (lines 390-401)
LineName(file, line, annotation_by, source, name_col) ==
    IF annotation_by = "NAME"
    THEN IF name_col # NA
         THEN IF NatVal(name_col) < file.ncols
              THEN [err |-> "none", val |-> Column(line, NatVal(name_col))]
              ELSE [err |-> "IndexError", val |-> <<>>]
         ELSE IF file.ncols < 4
              THEN [err |-> "none",
                    val |-> Join(<<Column(line, 0), Column(line, 1),
                                   Column(line, 2)>>, <<"_">>)]
              ELSE [err |-> "none", val |-> Column(line, 3)]
    ELSE [err |-> "none", val |-> source]

\* the strand of one line (lines 403-406)
LineStrand(file, line) == IF IsBed6Like(file) THEN line.strand ELSE "+"

\* the anchor <<start, end>> of an interval (lines 408-420)
Anchor(pos, strand, start, end) ==
    CASE pos = "START" -> IF strand = "+" THEN <<start, start + 1>>
                          ELSE <<end - 1, end>>
      [] pos = "END"   -> IF strand = "-" THEN <<end - 1, end>>
                          ELSE <<start, start + 1>>
      [] pos = "MID"   -> <<start + ((end - start) \div 2),
                            start + ((end - start) \div 2) + 1>>
      [] OTHER         -> <<start, end>>

\* name += "(" + chrom_start_end + ")" with the anchor's coordinates (line 421)
Label(name, chrom, a) ==
    name \o <<"(">>
         \o Join(<<chrom, IntStr(a[1]), IntStr(a[2])>>, <<"_">>) \o <<")">>

\* the search interval: the anchor widened by max_distance (lines 423-424)
Pad(a, max_distance) ==
    <<IF a[1] - max_distance > 0 THEN a[1] - max_distance ELSE 0,
      a[2] + max_distance>>

Bed6LinePaddedLabel(file, line, pos, annotation_by, max_distance, source, name_col) ==
    LET nm     == LineName(file, line, annotation_by, source, name_col)
        strand == LineStrand(file, line)
        a      == Anchor(pos, strand, line.start, line.end)
        p      == Pad(a, max_distance)
    IN  [err |-> nm.err,
         val |-> [chrom |-> line.chrom, start |-> p[1], end |-> p[2],
                  name |-> Label(nm.val, line.chrom, p), strand |-> strand]]

\* one line of bed_list (lines 385-427)
Bed6Line(file, line, pos, annotation_by, max_distance, source, name_col) ==
    LET nm     == LineName(file, line, annotation_by, source, name_col)
        strand == LineStrand(file, line)
        a      == Anchor(pos, strand, line.start, line.end)
        p      == Pad(a, max_distance)
    IN  [err |-> nm.err,
         val |-> [chrom |-> line.chrom, start |-> p[1], end |-> p[2],
                  name |-> Label(nm.val, line.chrom, a), strand |-> strand]]

RECURSIVE Bed6From(_, _, _, _, _, _, _)
Bed6From(file, i, pos, annotation_by, max_distance, source, name_col) ==
    IF i > Len(file.lines) THEN [err |-> "none", val |-> <<>>]
    ELSE LET one == Bed6Line(file, file.lines[i], pos, annotation_by,
                             max_distance, source, name_col)
         IN  IF one.err # "none" THEN [err |-> one.err, val |-> <<>>]
             ELSE LET rest == Bed6From(file, i + 1, pos, annotation_by,
                                       max_distance, source, name_col)
                  IN  [err |-> rest.err, val |-> <<one.val>> \o rest.val]

\* __create_bed6(bed_filename, pos, annotation_by, max_distance, source, name_col)
CreateBed6(file, pos, annotation_by, max_distance, source, name_col) ==
    Bed6From(file, 1, pos, annotation_by, max_distance, source, name_col)

----------------------------------------------------------------------------
(* The base table as bed4, and the intersection *)

\* "_".join(str(e) for e in row.iloc[:3])
BaseName(row) == Join(<<row.chrom, IntStr(row.start), IntStr(row.end)>>, <<"_">>)

\* __create_bed4(df)
CreateBed4(rows) ==
    [i \in 1..Len(rows) |->
        [chrom |-> rows[i].chrom, start |-> rows[i].start,
         end |-> rows[i].end, name |-> BaseName(rows[i])]]

\* two half-open intervals on one chromosome share a position
Overlaps(b, r) == b.chrom = r.chrom /\ b.start < r.end /\ r.start < b.end

RECURSIVE HitsOfRow(_, _, _)
HitsOfRow(b, anno, j) ==
    IF j > Len(anno) THEN <<>>
    ELSE (IF Overlaps(b, anno[j])
          THEN <<[base_name |-> b.name, db_name |-> anno[j].name,
                  db_strand |-> anno[j].strand]>>
          ELSE <<>>) \o HitsOfRow(b, anno, j + 1)

RECURSIVE IntersectFrom(_, _, _)
IntersectFrom(bed, anno, i) ==
    IF i > Len(bed) THEN <<>>
    ELSE HitsOfRow(bed[i], anno, 1) \o IntersectFrom(bed, anno, i + 1)

\* self.__base_bed.intersect(anno_bed, wa=True, wb=True): e[3], e[7], e[9]
Intersect(bed, anno) == IntersectFrom(bed, anno, 1)

----------------------------------------------------------------------------
(* __calculate_distance *)

\* int(parts[k]) for 0-based k: IndexError, ValueError or the value
IntField(parts, k) ==
    IF Len(parts) < k + 1 THEN [err |-> "IndexError", val |-> 0]
    ELSE ParseInt(parts[k + 1])

\* s[:-1]
DropLast(s) == IF Len(s) = 0 THEN s ELSE SubSeq(s, 1, Len(s) - 1)

SignedByStarts(db_start, db_end, base_start, base_end, db_strand) ==
    IF db_start < base_start
    THEN IF db_strand = "-" THEN (0 - 1) * (base_start - db_end)
         ELSE base_start - db_end
    ELSE IF base_end < db_start
         THEN IF db_strand = "-" THEN (0 - 1) * (db_start - base_end)
              ELSE db_start - base_end
         ELSE 0

\* lines 511-521
Signed(db_start, db_end, base_start, base_end, db_strand) ==
    IF db_end < base_start
    THEN IF db_strand = "-" THEN (0 - 1) * (base_start - db_end)
         ELSE base_start - db_end
    ELSE IF base_end < db_start
         THEN IF db_strand = "-" THEN (0 - 1) * (db_start - base_end)
              ELSE db_start - base_end
         ELSE 0

\* __calculate_distance(e)
CalculateDistance(e) ==
    LET bsplit == Split(e.base_name, "_")
        bs     == IntField(bsplit, 1)
        be     == IntField(bsplit, 2)
        paren  == Split(e.db_name, "(")
        dsplit == IF Len(paren) < 2 THEN <<>>
                  ELSE Split(DropLast(paren[2]), "_")
        ds     == IntField(dsplit, 1)
        de     == IntField(dsplit, 2)
    IN  IF bs.err # "none" THEN [err |-> bs.err, val |-> 0]
        ELSE IF be.err # "none" THEN [err |-> be.err, val |-> 0]
        ELSE IF Len(paren) < 2 THEN [err |-> "IndexError", val |-> 0]
        ELSE IF ds.err # "none" THEN [err |-> ds.err, val |-> 0]
        ELSE IF de.err # "none" THEN [err |-> de.err, val |-> 0]
        ELSE [err |-> "none",
              val |-> Signed(ds.val, de.val, bs.val, be.val, e.db_strand)]

----------------------------------------------------------------------------
(* Completion tracking and hit selection *)

\* the labels read back from one cell: e.split(";"), then e.split("(")[0]
CellLabels(cell) ==
    LET parts == Split(cell, ";")
    IN  {Split(parts[i], "(")[1] : i \in 1..Len(parts)}

AnnoDoneByColumn(cols, region_type, source, annotation_by) ==
    region_type \in DOMAIN cols

\* __anno_done(region_type, source, annotation_by)
AnnoDone(cols, region_type, source, annotation_by) ==
    IF region_type \notin DOMAIN cols THEN FALSE
    ELSE IF annotation_by = "SOURCE"
         THEN LET column == cols[region_type]
              IN  source \in UNION {CellLabels(column[i]) : i \in 1..Len(column)}
         ELSE TRUE

\* db_name + "(" + str(distance) + ")" (lines 207-209)
Token(e, distance) ==
    Split(e.db_name, "(")[1] \o <<"(">> \o IntStr(distance) \o <<")">>

RECURSIVE InsertBeforeTies(_, _)
InsertBeforeTies(x, sorted) ==
    IF Len(sorted) = 0 THEN <<x>>
    ELSE IF Abs(sorted[1][2]) < Abs(x[2])
         THEN <<sorted[1]>> \o InsertBeforeTies(x, Tail(sorted))
         ELSE <<x>> \o sorted

RECURSIVE InsertByAbs(_, _)
\* x goes behind every element whose |distance| is not larger
InsertByAbs(x, sorted) ==
    IF Len(sorted) = 0 THEN <<x>>
    ELSE IF Abs(sorted[1][2]) <= Abs(x[2])
         THEN <<sorted[1]>> \o InsertByAbs(x, Tail(sorted))
         ELSE <<x>> \o sorted

RECURSIVE SortedHits(_)
\* sorted(overlap_list, key = lambda a: abs(a[1])) (lines 217-218)
SortedHits(overlap_list) ==
    IF Len(overlap_list) = 0 THEN <<>>
    ELSE InsertByAbs(overlap_list[Len(overlap_list)],
                     SortedHits(SubSeq(overlap_list, 1, Len(overlap_list) - 1)))

\* result_string of one base row (lines 216-224); overlap_list is not empty
ResultString(overlap_list, n_hits) ==
    LET s == SortedHits(overlap_list)
    IN  IF n_hits = "ALL"
        THEN Join([i \in 1..Len(s) |-> s[i][1]], <<";">>)
        ELSE s[1][1]

AppendedOverwrites(anno_string, result_string) == result_string

\* the new cell (lines 225-228)
Appended(anno_string, result_string) ==
    IF anno_string = NA THEN result_string
    ELSE anno_string \o <<";">> \o result_string

\* intersect_dict with one more hit (lines 208-213)
DictAdd(dict, key, item) ==
    IF \E k \in 1..Len(dict) : dict[k].key = key
    THEN [k \in 1..Len(dict) |->
            IF dict[k].key = key
            THEN [dict[k] EXCEPT !.list = Append(@, item)]
            ELSE dict[k]]
    ELSE Append(dict, [key |-> key, list |-> <<item>>])

RECURSIVE ScanFrom(_, _, _, _)
\* the loop over intersect_bed (lines 202-213): the dictionary and the hit
\* records, or the exception of __calculate_distance
ScanFrom(inter, i, dict, seen) ==
    IF i > Len(inter) THEN [err |-> "none", dict |-> dict, hits |-> seen]
    ELSE LET d == CalculateDistance(inter[i])
         IN  IF d.err # "none"
             THEN [err |-> d.err, dict |-> dict, hits |-> seen]
             ELSE ScanFrom(inter, i + 1,
                           DictAdd(dict, inter[i].base_name,
                                   <<Token(inter[i], d.val), d.val>>),
                           Append(seen, [base_name |-> inter[i].base_name,
                                         db_name |-> inter[i].db_name,
                                         db_strand |-> inter[i].db_strand,
                                         distance |-> d.val]))

\* the rows of the base table that self.__base.loc[base_name] selects: the
\* index holds the names only once the table has passed __check_base
RowsNamed(table, indexed, base_name) ==
    IF indexed
    THEN {i \in 1..Len(table.rows) : BaseName(table.rows[i]) = base_name}
    ELSE {}

RECURSIVE MergeFrom(_, _, _, _, _, _, _, _)
\* the loop over intersect_dict (lines 214-229): the column after it, the
\* merges done, and the exception that ended it (KeyError: no such label;
\* ValueError: the label selects several rows and the cell is a Series)
MergeFrom(dict, k, table, indexed, cells, region_type, n_hits, done) ==
    IF k > Len(dict) THEN [err |-> "none", cells |-> cells, merged |-> done]
    ELSE LET rows == RowsNamed(table, indexed, dict[k].key)
         IN  IF rows = {}
             THEN [err |-> "KeyError", cells |-> cells, merged |-> done]
             ELSE IF Cardinality(rows) > 1
             THEN [err |-> "ValueError", cells |-> cells, merged |-> done]
             ELSE LET r   == CHOOSE i \in rows : TRUE
                      res == ResultString(dict[k].list, n_hits)
                      new == Appended(cells[r], res)
                  IN  MergeFrom(dict, k + 1, table, indexed,
                                [cells EXCEPT ![r] = new], region_type, n_hits,
                                Append(done, [row |-> r, region_type |-> region_type,
                                              old |-> cells[r], result |-> res,
                                              new |-> new]))

----------------------------------------------------------------------------
(* Validation of the loaded tables *)

\* region_type_dict[region_type].count("NAME") (lines 286-297)
NameCount(rows, region_type) ==
    Cardinality({i \in 1..Len(rows) :
                    /\ rows[i].region_type = region_type
                    /\ rows[i].annotation_by = "NAME"})

\* set(region_type_dict[region_type]) (line 304)
ByValues(rows, region_type) ==
    {rows[i].annotation_by :
        i \in {j \in 1..Len(rows) : rows[j].region_type = region_type}}

CheckDatabaseRowsNamesOnly(rows, on_disk) ==
    IF \E i \in 1..Len(rows) : rows[i].filename \notin on_disk
    THEN "RuntimeError"
    ELSE IF \E i \in 1..Len(rows) : NameCount(rows, rows[i].region_type) > 1
         THEN "RuntimeError"
         ELSE "ok"

\* the outcome of __check_database on a table that has its columns
\* (lines 275-310)
CheckDatabaseRows(rows, on_disk) ==
    IF \E i \in 1..Len(rows) : rows[i].filename \notin on_disk
    THEN "RuntimeError"
    ELSE IF \E i \in 1..Len(rows) :
               \/ NameCount(rows, rows[i].region_type) > 1
               \/ Cardinality(ByValues(rows, rows[i].region_type)) > 1
         THEN "RuntimeError"
         ELSE "ok"

\* the outcome of __check_base (lines 317-331)
CheckBase(table) ==
    IF ~table.header_ok THEN "RuntimeError"
    ELSE IF \E i \in 1..Len(table.rows) :
               \/ table.rows[i].start < 0
               \/ table.rows[i].end < 0
               \/ ~(table.rows[i].end > table.rows[i].start)
         THEN "RuntimeError"
         ELSE "ok"

NoColumns == [c \in {} |-> <<>>]

NoPrevCols == [none |-> TRUE, cols |-> NoColumns]

----------------------------------------------------------------------------
(* Operations *)

\* load_database_from_dataframe / load_database_from_file with table db
LoadDatabase(db) ==
    /\ pc = "idle"
    /\ IF ~db.cols_ok
       THEN /\ database' = NoDatabase
            /\ result' = "RuntimeError"
       ELSE /\ database' = [none |-> FALSE, rows |-> db.rows]
            /\ result' = CheckDatabaseRows(db.rows, DOMAIN files)
    /\ op' = "load_database"
    /\ call_log' = <<>>
    /\ prev_log' = NoLog
    /\ prev_cols' = NoPrevCols
    /\ last_hits' = <<>>
    /\ merged' = <<>>
    /\ UNCHANGED <<files, base, base_cols, base_bed, pc, idx, calls, probe>>

\* load_base_from_dataframe / load_base_from_file with table t
LoadBase(t) ==
    /\ pc = "idle"
    /\ base' = [none |-> FALSE, header_ok |-> t.header_ok, rows |-> t.rows]
    /\ base_cols' = NoColumns
    /\ IF CheckBase(t) = "ok"
       THEN base_bed' = [none |-> FALSE, rows |-> CreateBed4(t.rows)]
       ELSE base_bed' = base_bed
    /\ result' = CheckBase(t)
    /\ op' = "load_base"
    /\ calls' = 0
    /\ call_log' = <<>>
    /\ prev_log' = NoLog
    /\ prev_cols' = NoPrevCols
    /\ last_hits' = <<>>
    /\ merged' = <<>>
    /\ UNCHANGED <<files, database, pc, idx, probe>>

\* annotate, lines 160-170: the check that both tables are defined
AnnotateCall ==
    /\ pc = "idle"
    /\ calls < MaxCalls
    /\ calls' = calls + 1
    /\ IF base.none \/ database.none
       THEN /\ op' = "annotate"
            /\ result' = "RuntimeError"
            /\ call_log' = <<>>
            /\ prev_log' = NoLog
            /\ prev_cols' = NoPrevCols
            /\ UNCHANGED <<pc, idx>>
       ELSE /\ pc' = "annotate"
            /\ idx' = 1
            /\ call_log' = <<>>
            /\ prev_log' = IF op = "annotate"
                           THEN [none |-> FALSE, log |-> call_log] ELSE NoLog
            /\ prev_cols' = IF op = "annotate"
                            THEN [none |-> FALSE, cols |-> base_cols]
                            ELSE NoPrevCols
            /\ UNCHANGED <<op, result>>
    /\ last_hits' = <<>>
    /\ merged' = <<>>
    /\ UNCHANGED <<files, database, base, base_cols, base_bed, probe>>

\* the column region_type exists after lines 189-192
WithColumn(cols, region_type, n_rows) ==
    IF region_type \in DOMAIN cols THEN cols
    ELSE [c \in DOMAIN cols \cup {region_type} |->
            IF c = region_type THEN [i \in 1..n_rows |-> NA] ELSE cols[c]]

\* one database row that is not done (lines 189-229): the columns after it,
\* what was matched and merged, and the exception that ended it
Matched(row, table, bed, cols, file) ==
    LET cols1 == WithColumn(cols, row.region_type, Len(table.rows))
        anno  == CreateBed6(file, row.distance_to, row.annotation_by,
                            row.max_distance, row.source, row.name_col)
        scan  == ScanFrom(Intersect(bed.rows, anno.val), 1, <<>>, <<>>)
        mrg   == MergeFrom(scan.dict, 1, table, CheckBase(table) = "ok",
                           cols1[row.region_type], row.region_type,
                           row.n_hits, <<>>)
    IN  IF anno.err # "none"
        THEN [err |-> anno.err, cols |-> cols1, hits |-> <<>>, merged |-> <<>>]
        ELSE IF bed.none
        THEN [err |-> "AttributeError", cols |-> cols1, hits |-> <<>>,
              merged |-> <<>>]
        ELSE IF scan.err # "none"
        THEN [err |-> scan.err, cols |-> cols1, hits |-> scan.hits,
              merged |-> <<>>]
        ELSE [err |-> mrg.err,
              cols |-> [cols1 EXCEPT ![row.region_type] = mrg.cells],
              hits |-> scan.hits, merged |-> mrg.merged]

\* one database row that is not done and whose file cannot be opened: the
\* column is created (lines 189-192) before open raises (line 381)
Unreadable(row, table, cols) ==
    [err |-> "IOError",
     cols |-> WithColumn(cols, row.region_type, Len(table.rows)),
     hits |-> <<>>, merged |-> <<>>]

\* annotate, one turn of the loop over the database rows (lines 172-229)
AnnotateEntry ==
    /\ pc = "annotate"
    /\ idx <= Len(database.rows)
    /\ LET row == database.rows[idx]
       IN  IF AnnoDone(base_cols, row.region_type, row.source,
                       row.annotation_by)
           THEN /\ idx' = idx + 1
                /\ call_log' = Append(call_log, "skipped")
                /\ UNCHANGED <<base_cols, pc, op, result, last_hits, merged>>
           ELSE LET m == IF row.filename \in DOMAIN files
                         THEN Matched(row, base, base_bed, base_cols,
                                      files[row.filename])
                         ELSE Unreadable(row, base, base_cols)
                IN  /\ base_cols' = m.cols
                    /\ last_hits' = m.hits
                    /\ merged' = m.merged
                    /\ IF m.err # "none"
                       THEN /\ pc' = "idle"
                            /\ op' = "annotate"
                            /\ result' = m.err
                            /\ call_log' = Append(call_log, "raised")
                            /\ idx' = 1
                       ELSE /\ idx' = idx + 1
                            /\ call_log' = Append(call_log,
                                   IF Len(m.hits) = 0 THEN "nohit" ELSE "hit")
                            /\ UNCHANGED <<pc, op, result>>
    /\ UNCHANGED <<files, database, base, base_bed, calls, prev_log, prev_cols,
                   probe>>

\* annotate returns after the last database row
AnnotateReturn ==
    /\ pc = "annotate"
    /\ idx > Len(database.rows)
    /\ pc' = "idle"
    /\ op' = "annotate"
    /\ result' = "ok"
    /\ idx' = 1
    /\ UNCHANGED <<files, database, base, base_cols, base_bed, calls, call_log,
                   prev_log, prev_cols, last_hits, merged, probe>>

----------------------------------------------------------------------------
(* Inputs of the annotation runs *)

\* database tables hold at most MaxEntries rows
MaxEntries == 2
\* base tables hold at most MaxBaseRows rows
MaxBaseRows == 2

ChrC == <<"c">>

LabelA == <<"a">>
LabelAB == <<"a", ";", "b">>

\* two reference files: one next to the base rows, one out of their reach
MainFiles ==
    [f \in {"near", "far"} |->
        IF f = "near"
        THEN [ncols |-> 6,
              lines |-> <<[chrom |-> ChrC, start |-> 2, end |-> 4,
                           name |-> <<"g">>, strand |-> "+"],
                          [chrom |-> ChrC, start |-> 3, end |-> 5,
                           name |-> <<"h">>, strand |-> "-"]>>]
        ELSE [ncols |-> 6,
              lines |-> <<[chrom |-> ChrC, start |-> 8, end |-> 9,
                           name |-> <<"k">>, strand |-> "+"]>>]]

\* the kinds of database rows of the annotation runs: two sources writing
\* one column, one of them with a ';' in its label, and a NAME column; each
\* on the file "near" and, but for the ';' label, on the file "far"
MainKinds ==
    {[region_type |-> "g", annotation_by |-> "SOURCE", source |-> LabelA,
      n_hits |-> "ALL"],
     [region_type |-> "g", annotation_by |-> "SOURCE", source |-> LabelAB,
      n_hits |-> "CLOSEST"],
     [region_type |-> "e", annotation_by |-> "NAME", source |-> LabelA,
      n_hits |-> "ALL"]}

MainEntries ==
    {[filename |-> f, region_type |-> k.region_type, source |-> k.source,
      annotation_by |-> k.annotation_by, max_distance |-> MaxPad,
      distance_to |-> "REGION", n_hits |-> k.n_hits, name_col |-> NA] :
        f \in {"near", "far"}, k \in MainKinds}
    \ {[filename |-> "far", region_type |-> "g", source |-> LabelAB,
         annotation_by |-> "SOURCE", max_distance |-> MaxPad,
         distance_to |-> "REGION", n_hits |-> "CLOSEST", name_col |-> NA]}

SeqsUpTo(S, n) == UNION {[1..k -> S] : k \in 0..n}

\* the database tables of the annotation runs: one without the required
\* columns, and the tables of at most MaxEntries pairwise different rows
MainDatabases ==
    {[cols_ok |-> FALSE, rows |-> <<>>]}
    \cup {[cols_ok |-> TRUE, rows |-> r] :
            r \in {d \in SeqsUpTo(MainEntries, MaxEntries) :
                      \A i, j \in 1..Len(d) : d[i] = d[j] => i = j}}

MainBaseRows ==
    {[chrom |-> ChrC, start |-> 2, end |-> 3],
     [chrom |-> ChrC, start |-> 0, end |-> 1]}

\* the tables that pass __check_base, one without the '#' header and one
\* with end < start
MainBases ==
    {[header_ok |-> TRUE, rows |-> r] :
        r \in SeqsUpTo(MainBaseRows, MaxBaseRows) \ {<<>>}}
    \cup {[header_ok |-> FALSE,
            rows |-> <<[chrom |-> ChrC, start |-> 2, end |-> 3]>>],
           [header_ok |-> TRUE,
            rows |-> <<[chrom |-> ChrC, start |-> 3, end |-> 2]>>]}

NoProbe == [overlap_list |-> <<>>, n_hits |-> "ALL", result |-> <<>>]

Init ==
    /\ files = MainFiles
    /\ database = NoDatabase
    /\ base = NoBase
    /\ base_cols = NoColumns
    /\ base_bed = NoBed
    /\ pc = "idle"
    /\ idx = 1
    /\ op = "init"
    /\ result = "ok"
    /\ calls = 0
    /\ call_log = <<>>
    /\ prev_log = NoLog
    /\ prev_cols = NoPrevCols
    /\ last_hits = <<>>
    /\ merged = <<>>
    /\ probe = NoProbe

\* The database is replaced before the first annotate call on a base table;
\* a new base table can be loaded at any time.
Next ==
    \/ \E db \in MainDatabases : calls = 0 /\ LoadDatabase(db)
    \/ \E t \in MainBases : LoadBase(t)
    \/ AnnotateCall
    \/ AnnotateEntry
    \/ AnnotateReturn

Spec == Init /\ [][Next]_vars

----------------------------------------------------------------------------
(* Loading databases: the tables given to __check_database *)

LoadEntries ==
    {[filename |-> f, region_type |-> rt, source |-> LabelA,
      annotation_by |-> by, max_distance |-> 0, distance_to |-> "REGION",
      n_hits |-> "ALL", name_col |-> NA] :
        f \in {"near", "far", "missing"}, rt \in {"g", "e"},
        by \in {"NAME", "SOURCE"}}

LoadDatabases ==
    {[cols_ok |-> FALSE, rows |-> <<>>]}
    \cup {[cols_ok |-> TRUE, rows |-> r] : r \in SeqsUpTo(LoadEntries, MaxEntries)}

NextLoad == \E db \in LoadDatabases : LoadDatabase(db)

SpecLoad == Init /\ [][NextLoad]_vars

----------------------------------------------------------------------------
(* Annotation runs with entries whose reference set cannot be built: a file
   that is not on disk (open raises, line 381) and a NAME.COL beyond the
   columns of the file (split_line[name_col] raises, line 394) *)

AbortEntries ==
    {[filename |-> "near", region_type |-> "e", source |-> LabelA,
      annotation_by |-> "NAME", max_distance |-> MaxPad,
      distance_to |-> "REGION", n_hits |-> "ALL", name_col |-> nc] :
        nc \in {NA, <<"7">>}}
    \cup {[filename |-> f, region_type |-> k.region_type, source |-> LabelA,
            annotation_by |-> k.annotation_by, max_distance |-> MaxPad,
            distance_to |-> "REGION", n_hits |-> "ALL", name_col |-> NA] :
            f \in {"near", "missing"},
            k \in {[region_type |-> "g", annotation_by |-> "SOURCE"],
                   [region_type |-> "k", annotation_by |-> "NAME"]}}

AbortDatabases ==
    {[cols_ok |-> TRUE, rows |-> r] :
        r \in {d \in SeqsUpTo(AbortEntries, MaxEntries) :
                  \A i, j \in 1..Len(d) : d[i] = d[j] => i = j}}

\* the base tables of one row that pass __check_base
AbortBases ==
    {[header_ok |-> TRUE, rows |-> <<r>>] : r \in MainBaseRows}

NextAbort ==
    \/ \E db \in AbortDatabases : calls = 0 /\ LoadDatabase(db)
    \/ \E t \in AbortBases : LoadBase(t)
    \/ AnnotateCall
    \/ AnnotateEntry
    \/ AnnotateReturn

SpecAbort == Init /\ [][NextAbort]_vars

----------------------------------------------------------------------------
(* One reference interval against one base interval *)

ChrC1 == <<"c", "_", "1">>

Intervals == {<<s, e>> \in (0..MaxCoord) \X (0..MaxCoord) : s < e}

\* a reference file of one line: with a strand column, or with four columns
GeomFiles ==
    {[ncols |-> 6,
      lines |-> <<[chrom |-> c, start |-> r[1], end |-> r[2],
                   name |-> <<"g">>, strand |-> st]>>] :
        c \in {ChrC, ChrC1}, r \in Intervals, st \in {"+", "-"}}
    \cup
    {[ncols |-> 4,
      lines |-> <<[chrom |-> c, start |-> r[1], end |-> r[2],
                   name |-> <<"g">>, strand |-> "."]>>] :
        c \in {ChrC, ChrC1}, r \in Intervals}

GeomEntries ==
    [filename : {"ref"}, region_type : {"g"}, source : {LabelA},
     annotation_by : {"NAME"}, max_distance : 0..MaxPad,
     distance_to : {"START", "END", "MID", "REGION"},
     n_hits : {"ALL"}, name_col : {NA}]

\* a base table of one row and a database of one row are loaded; the base
\* row lies on the chromosome of the reference line
InitGeom ==
    /\ \E f \in GeomFiles : files = [n \in {"ref"} |-> f]
    /\ \E e \in GeomEntries : database = [none |-> FALSE, rows |-> <<e>>]
    /\ \E b \in Intervals :
          LET row == [chrom |-> files["ref"].lines[1].chrom,
                      start |-> b[1], end |-> b[2]]
          IN  /\ base = [none |-> FALSE, header_ok |-> TRUE, rows |-> <<row>>]
              /\ base_bed = [none |-> FALSE, rows |-> CreateBed4(<<row>>)]
    /\ base_cols = NoColumns
    /\ pc = "idle"
    /\ idx = 1
    /\ op = "load_base"
    /\ result = "ok"
    /\ calls = 0
    /\ call_log = <<>>
    /\ prev_log = NoLog
    /\ prev_cols = NoPrevCols
    /\ last_hits = <<>>
    /\ merged = <<>>
    /\ probe = NoProbe

NextGeom == AnnotateCall \/ AnnotateEntry \/ AnnotateReturn

SpecGeom == InitGeom /\ [][NextGeom]_vars

----------------------------------------------------------------------------
(* The hit-selection block on arbitrary hit lists *)

\* a base row has at most MaxHits hits
MaxHits == 3
\* their distances range over -MaxDist..MaxDist
MaxDist == 2

\* hits as lines 209-213 store them: [label(distance), distance]
ProbeHits ==
    {<<l \o <<"(">> \o IntStr(d) \o <<")">>, d>> :
        l \in {<<"x">>, <<"y">>}, d \in (0 - MaxDist)..MaxDist}

InitMerge ==
    /\ files = MainFiles
    /\ database = NoDatabase
    /\ base = NoBase
    /\ base_cols = NoColumns
    /\ base_bed = NoBed
    /\ pc = "idle"
    /\ idx = 1
    /\ op = "init"
    /\ result = "ok"
    /\ calls = 0
    /\ call_log = <<>>
    /\ prev_log = NoLog
    /\ prev_cols = NoPrevCols
    /\ last_hits = <<>>
    /\ merged = <<>>
    /\ \E l \in SeqsUpTo(ProbeHits, MaxHits) \ {<<>>}, n \in {"ALL", "CLOSEST"} :
          probe = [overlap_list |-> l, n_hits |-> n, result |-> <<>>]

\* lines 216-224 applied to the hit list of one base row
SelectHits ==
    /\ probe.result = <<>>
    /\ probe' = [probe EXCEPT
                    !.result = ResultString(probe.overlap_list, probe.n_hits)]
    /\ UNCHANGED <<files, database, base, base_cols, base_bed, pc, idx, op,
                   result, calls, call_log, prev_log, prev_cols, last_hits,
                   merged>>

NextMerge == SelectHits

SpecMerge == InitMerge /\ [][NextMerge]_vars

----------------------------------------------------------------------------
(* Properties of one reference interval against one base interval,          *)
(* specification SpecGeom                                                   *)

RefLine == files["ref"].lines[1]
RefEntry == database.rows[1]
BaseRow == base.rows[1]
RefStrand == LineStrand(files["ref"], RefLine)

NoUnderscore(chrom) == \A i \in 1..Len(chrom) : chrom[i] # "_"

\* the anchor of [s, e) as the specification describes it
SpecAnchor(pos, strand, s, e) ==
    IF pos = "START" THEN (IF strand = "+" THEN <<s, s + 1>> ELSE <<e - 1, e>>)
    ELSE IF pos = "END" THEN (IF strand = "+" THEN <<e - 1, e>> ELSE <<s, s + 1>>)
    ELSE IF pos = "MID" THEN <<s + ((e - s) \div 2), s + ((e - s) \div 2) + 1>>
    ELSE <<s, e>>

\* the number of positions between [bs, be) and [s, e), 0 if there are none
Gap(bs, be, s, e) ==
    IF e < bs THEN bs - e ELSE IF be < s THEN s - be ELSE 0

\* C10: the label of every hit carries the anchor of the reference interval
\* as the specification describes it: START its strand-relative start, END
\* the opposite end, MID its midpoint, REGION the interval itself.
C10_AnchorCollapse ==
    \A i \in 1..Len(last_hits) :
        last_hits[i].db_name =
            Label(RefLine.name, RefLine.chrom,
                  SpecAnchor(RefEntry.distance_to, RefStrand,
                             RefLine.start, RefLine.end))

\* C2: a hit of a base interval that lies below a '+' reference interval has
\* a negative distance, one that lies above it a positive distance; on a '-'
\* reference interval the signs are inverted.
C2_DistanceSign ==
    \A i \in 1..Len(last_hits) :
        LET d == last_hits[i].distance
        IN  /\ (BaseRow.end < RefLine.start) =>
                  (IF RefStrand = "+" THEN d < 0 ELSE d > 0)
            /\ (RefLine.end < BaseRow.start) =>
                  (IF RefStrand = "+" THEN d > 0 ELSE d < 0)

BaseInsideRef == RefLine.start <= BaseRow.start /\ BaseRow.end <= RefLine.end

CodeAnchor ==
    Anchor(RefEntry.distance_to, RefStrand, RefLine.start, RefLine.end)

----------------------------------------------------------------------------
(* Hit selection, specification SpecMerge *)

\* the place of hit i when the hits are put in ascending |distance|, ties in
\* their original order
Place(l, i) ==
    1 + Cardinality({j \in 1..Len(l) :
                        \/ Abs(l[j][2]) < Abs(l[i][2])
                        \/ (Abs(l[j][2]) = Abs(l[i][2]) /\ j < i)})

Ordered(l) == [k \in 1..Len(l) |-> l[CHOOSE i \in 1..Len(l) : Place(l, i) = k][1]]

\* C4: the string merged for a base row is the ';'-join of the tokens of its
\* hits in ascending |distance|, ties in original hit order, with ALL; with
\* CLOSEST it is the first token of that order.
C4_HitSelection ==
    probe.result # <<>> =>
        probe.result =
            IF probe.n_hits = "ALL"
            THEN Join(Ordered(probe.overlap_list), <<";">>)
            ELSE Ordered(probe.overlap_list)[1]

\* witness of C4: three hits, two of them tied, the closest one last
C4_Witness ==
    /\ probe.result # <<>>
    /\ probe.n_hits = "ALL"
    /\ Len(probe.overlap_list) = 3
    /\ Abs(probe.overlap_list[1][2]) = Abs(probe.overlap_list[2][2])
    /\ probe.overlap_list[1] # probe.overlap_list[2]
    /\ Abs(probe.overlap_list[3][2]) < Abs(probe.overlap_list[1][2])

----------------------------------------------------------------------------
(* Database validation, specification SpecLoad *)

\* the region_type invariant of the data model
RegionTypeInvariant(rows) ==
    \A i, j \in 1..Len(rows) :
        rows[i].region_type = rows[j].region_type =>
            /\ rows[i].annotation_by = rows[j].annotation_by
            /\ (i # j => ~(rows[i].annotation_by = "NAME"
                           /\ rows[j].annotation_by = "NAME"))

\* C6: loading a database with its columns and existing files succeeds if
\* and only if the region_type invariant holds; otherwise it raises.
C6_DatabaseValidation ==
    (/\ op = "load_database"
     /\ ~database.none
     /\ \A i \in 1..Len(database.rows) :
            database.rows[i].filename \in DOMAIN files)
    => /\ result \in {"ok", "RuntimeError"}
       /\ (result = "ok") <=> RegionTypeInvariant(database.rows)

\* witness of C6: a database of two SOURCE rows sharing a region_type was
\* loaded from existing files
C6_Witness ==
    /\ op = "load_database"
    /\ result = "ok"
    /\ Len(database.rows) = 2
    /\ database.rows[1].region_type = database.rows[2].region_type
    /\ database.rows[1].annotation_by = "SOURCE"
    /\ database.rows[1].filename # database.rows[2].filename

----------------------------------------------------------------------------
(* The annotation runs, specification Spec *)

\* both tables are loaded and passed their checks
Validated ==
    /\ ~base.none
    /\ ~database.none
    /\ CheckBase(base) = "ok"
    /\ CheckDatabaseRows(database.rows, DOMAIN files) = "ok"

\* C8: annotate matches a database row (and creates or changes a column)
\* only if the base table and the database were loaded and passed their
\* checks.
C8_LoadGating ==
    (\E i \in 1..Len(call_log) : call_log[i] # "skipped") => Validated

\* the previous and the last annotate call both returned, on tables that
\* passed their checks and were not loaded in between
TwoCallsReturned ==
    /\ pc = "idle" /\ op = "annotate" /\ result = "ok"
    /\ ~prev_cols.none
    /\ \A i \in 1..Len(prev_log.log) : prev_log.log[i] # "raised"
    /\ Len(prev_log.log) = Len(database.rows)
    /\ Validated

\* C1: the second of two annotate calls in a row leaves every column that
\* holds a hit as the first call left it.
C1_Idempotence ==
    TwoCallsReturned =>
        \A rt \in DOMAIN prev_cols.cols :
            (\E r \in 1..Len(prev_cols.cols[rt]) : prev_cols.cols[rt][r] # NA)
                => base_cols[rt] = prev_cols.cols[rt]

\* C5: a cell that holds a value other than "NA" is only ever extended: the
\* old value stays as a prefix, and a change is one entry's result behind
\* one ';'.
C5_NeverOverwrites ==
    [][\A rt \in DOMAIN base_cols \cap DOMAIN base_cols' :
         \A r \in 1..Len(base_cols[rt]) :
            (base_cols[rt][r] # NA /\ base_cols'[rt][r] # base_cols[rt][r]) =>
               /\ IsPrefix(base_cols[rt][r], base_cols'[rt][r])
               /\ \E k \in 1..Len(merged') :
                     /\ merged'[k].row = r
                     /\ merged'[k].region_type = rt
                     /\ base_cols'[rt][r] =
                           base_cols[rt][r] \o <<";">> \o merged'[k].result]_vars

\* witness of C5: an entry's result was appended to a cell that held one
C5_Witness ==
    \E k \in 1..Len(merged) :
        /\ merged[k].old # NA
        /\ base_cols[merged[k].region_type][merged[k].row] = merged[k].new

\* the running call is the second in a row and treats a row that had no hit
\* in the first
SecondTurn(i) ==
    /\ ~prev_log.none
    /\ i <= Len(prev_log.log)
    /\ i <= Len(call_log)
    /\ prev_log.log[i] = "nohit"

\* C9 as stated: an entry without a hit in one call is not skipped in the
\* next call.
C9_ZeroHitRematched_Original ==
    \A i \in 1..Len(call_log) : SecondTurn(i) => call_log[i] # "skipped"

AllUnset(cols, region_type) ==
    \A r \in 1..Len(cols[region_type]) : cols[region_type][r] = NA

\* C9, amended: when the turn of a row that had no hit in the previous call
\* comes, a SOURCE row whose label is not "NA" is matched again if its whole
\* column is still unset, and a NAME row is skipped because its column
\* exists.
C9_ZeroHitSourceRematched ==
    [][(/\ pc = "annotate"
        /\ idx <= Len(database.rows)
        /\ ~prev_log.none
        /\ idx <= Len(prev_log.log)
        /\ prev_log.log[idx] = "nohit")
       => LET row == database.rows[idx]
          IN  /\ (/\ row.annotation_by = "SOURCE"
                  /\ row.source # NA
                  /\ AllUnset(base_cols, row.region_type))
                 => call_log'[idx] # "skipped"
              /\ row.annotation_by = "NAME" => call_log'[idx] = "skipped"]_vars

\* witness of C9: in the second call a SOURCE row without a hit in the first
\* was matched again, and found no hit again
C9_Witness ==
    \E i \in 1..Len(call_log) :
        /\ SecondTurn(i)
        /\ database.rows[i].annotation_by = "SOURCE"
        /\ call_log[i] = "nohit"

----------------------------------------------------------------------------
(* C11: a failed entry and the base table *)

\* __create_bed6 raises for this database row: open fails (line 381) or a
\* line has no column NAME.COL (line 394)
BuildFails(row) ==
    \/ row.filename \notin DOMAIN files
    \/ CreateBed6(files[row.filename], row.distance_to, row.annotation_by,
                  row.max_distance, row.source, row.name_col).err # "none"

\* C11: a loop turn of annotate on an entry that is not done and whose
\* reference set cannot be built leaves the columns of the base table as
\* they were; in particular it creates no region_type column.
C11_NoPartialEffect ==
    [][(/\ pc = "annotate"
        /\ idx <= Len(database.rows)
        /\ ~AnnoDone(base_cols, database.rows[idx].region_type,
                     database.rows[idx].source,
                     database.rows[idx].annotation_by)
        /\ BuildFails(database.rows[idx]))
       => base_cols' = base_cols]_vars

----------------------------------------------------------------------------
(* C12: distance 0 and overlap *)

\* the half-open base interval and the interval recorded in the label of
\* the hit have a position in common
SharePosition == BaseRow.start < CodeAnchor[2] /\ CodeAnchor[1] < BaseRow.end

\* the base interval ends where the recorded interval starts, or starts
\* where it ends
Touches == BaseRow.start = CodeAnchor[2] \/ BaseRow.end = CodeAnchor[1]

\* C12: on chromosome names without '_', a hit has distance 0 only if the
\* base interval and the interval recorded in its label share a position;
\* a base interval that only touches the recorded interval and is matched
\* through the padding has a distance other than 0.
C12_ZeroIsOverlap ==
    \A i \in 1..Len(last_hits) :
        NoUnderscore(RefLine.chrom) =>
            /\ (last_hits[i].distance = 0 => SharePosition)
            /\ (Touches => last_hits[i].distance # 0)

====
